---- MODULE Spec2Model ----
(***************************************************************************)
(* A model of the tool dispatcher of src/src/wikimedia/server.py           *)
(* (handle_call_tool).  A call is a coroutine: it opens an HTTP session,   *)
(* reads and checks its arguments, issues at most one GET, waits for the   *)
(* upstream answer, renders it to one text block and closes the session.   *)
(* Python strings are TLA+ strings (concatenated with \o); strings the     *)
(* code takes apart (the date) are sequences of one-character strings.     *)
(* A dict is a function whose domain is its set of keys, a list is a       *)
(* sequence, an optional value is a sequence of length 0 or 1.             *)
(***************************************************************************)
EXTENDS Integers, Sequences, FiniteSets, TLC

VARIABLES calls, net

vars == <<calls, net>>

(* ------------------------------ bounds -------------------------------- *)

\* Number of coroutines that may run handle_call_tool at the same time.
NumCalls == 2
\* Longest `pages` list of an upstream search answer.
MaxPages == 2
\* Longest `redirects` list of an upstream query answer.
MaxRedirects == 2
\* Longest `langlinks` list of an upstream query answer.
MaxLinks == 3

(* ------------------------- Python primitives --------------------------- *)

Digits == <<"0", "1", "2", "3", "4", "5", "6", "7", "8", "9">>

IsDigit(ch) == \E i \in 1..10 : Digits[i] = ch

DigitVal(ch) == (CHOOSE i \in 1..10 : Digits[i] = ch) - 1

\* "".join(chars): the string a sequence of characters spells.
RECURSIVE JoinChars(_)
JoinChars(s) == IF s = <<>> THEN "" ELSE Head(s) \o JoinChars(Tail(s))

\* sep.join(parts) for a list of strings.
RECURSIVE StrJoin(_, _)
StrJoin(sep, parts) ==
    IF parts = <<>> THEN ""
    ELSE IF Len(parts) = 1 THEN parts[1]
    ELSE parts[1] \o sep \o StrJoin(sep, Tail(parts))

\* str.split(sep) for a one-character separator: the list of the pieces
\* between the separators (always at least one piece).
RECURSIVE SplitFrom(_, _, _)
SplitFrom(s, sep, cur) ==
    IF s = <<>> THEN <<cur>>
    ELSE IF Head(s) = sep THEN <<cur>> \o SplitFrom(Tail(s), sep, <<>>)
    ELSE SplitFrom(Tail(s), sep, Append(cur, Head(s)))

Split(s, sep) == SplitFrom(s, sep, <<>>)

\* str.zfill(width): zeros on the left up to width, after a leading sign.
RECURSIVE Zeros(_)
Zeros(n) == IF n <= 0 THEN <<>> ELSE <<"0">> \o Zeros(n - 1)

ZFill(s, width) ==
    IF Len(s) >= width THEN s
    ELSE IF s # <<>> /\ Head(s) \in {"+", "-"}
         THEN <<Head(s)>> \o Zeros(width - Len(s)) \o Tail(s)
         ELSE Zeros(width - Len(s)) \o s

AllDigits(s) == s # <<>> /\ \A i \in 1..Len(s) : IsDigit(s[i])

RECURSIVE DigitsVal(_)
DigitsVal(s) ==
    IF s = <<>> THEN 0
    ELSE 10 * DigitsVal(SubSeq(s, 1, Len(s) - 1)) + DigitVal(s[Len(s)])

\* int(s): [ok, v]; ok is FALSE where Python raises ValueError.
PyInt(s) ==
    IF s # <<>> /\ Head(s) \in {"+", "-"} /\ AllDigits(Tail(s))
    THEN [ok |-> TRUE,
          v |-> IF Head(s) = "-" THEN 0 - DigitsVal(Tail(s)) ELSE DigitsVal(Tail(s))]
    ELSE IF AllDigits(s) THEN [ok |-> TRUE, v |-> DigitsVal(s)]
    ELSE [ok |-> FALSE, v |-> 0]

\* strftime's %m, %d (two digits) and %Y (four digits).
Fmt2(n) == <<Digits[(n \div 10) + 1], Digits[(n % 10) + 1]>>

Fmt4(n) == Fmt2(n \div 100) \o Fmt2(n % 100)

\* dict.get(key, default)
Get(d, key, default) == IF key \in DOMAIN d THEN d[key] ELSE default

\* str(None), as an f-string renders an absent query or title.
NoneStr == "None"

\* session.get(url, params={..., "titles": None}) raises TypeError while it
\* builds the query string, before anything is sent.
NoneParamMsg ==
    "Invalid variable type: value should be str, int or float, got None of type <class 'NoneType'>"

\* The empty dict {}.
EmptyDict == [k \in {} |-> ""]

\* seq[:n]
Prefix(seq, n) == SubSeq(seq, 1, IF Len(seq) < n THEN Len(seq) ELSE n)

(* --------------------- results and exceptions -------------------------- *)

\* types.TextContent(type="text", text=...)
TextContent(text) == [type |-> "text", text |-> text]

\* `return [types.TextContent(type="text", text=...)]`
Ret(text) == [k |-> "return", blocks |-> <<TextContent(text)>>, cls |-> "", msg |-> ""]

\* `raise cls(msg)`, or an exception of class cls raised by a library call.
Raise(cls, msg) == [k |-> "raise", blocks |-> <<>>, cls |-> cls, msg |-> msg]

\* The statement has not completed yet (the coroutine goes on).
Pending == [k |-> "pending", blocks |-> <<>>, cls |-> "", msg |-> ""]

\* Subclasses of aiohttp.ClientError among the exceptions of the model.
ClientErrors == {"ClientConnectorError", "ClientResponseError", "ContentTypeError"}

\* Subclasses of ValueError among the exceptions of the model.
ValueErrors == {"ValueError", "JSONDecodeError"}

(* ----------------------- requests and locals --------------------------- *)

\* The GET handed to session.get: the URL and, for api.php, the params dict
\* as a list of (key, value) pairs.  `endpoint` names the upstream route the
\* URL addresses (the upstream answers in that route's shape).
Request(endpoint, url, params) == [endpoint |-> endpoint, url |-> url, params |-> params]

\* The local variables of a branch that are still read after the await.
Locals(title, date, month, day, type_) ==
    [title |-> title, date |-> date, month |-> month, day |-> day, type_ |-> type_]

NoLocals == Locals("", "", "", "", "")

\* What the statements before the await produce: a finished result (res is a
\* return or a raise) or the request to issue (res is Pending, req holds it).
Finished(res) == [res |-> res, req |-> <<>>, locals |-> NoLocals]

Issue(req, locals) == [res |-> Pending, req |-> <<req>>, locals |-> locals]

(* --------------------------- search_content ---------------------------- *)

SearchContentPrepare(args) ==
    LET query == Get(args, "query", NoneStr)
        limit == Get(args, "limit", 10)
        project == Get(args, "project", "wikipedia")
        language == Get(args, "language", "en")
        api_url == "https://api.wikimedia.org/core/v1/" \o project \o "/" \o language
                   \o "/search/page?q=" \o query \o "&limit=" \o ToString(limit)
    IN  Issue(Request("search/page", api_url, <<>>), NoLocals)

(* ---------------------------- search_titles ---------------------------- *)

SearchTitlesPrepare(args) ==
    LET query == Get(args, "query", NoneStr)
        limit == Get(args, "limit", 10)
        project == Get(args, "project", "wikipedia")
        language == Get(args, "language", "en")
        api_url == "https://api.wikimedia.org/core/v1/" \o project \o "/" \o language
                   \o "/search/title?q=" \o query \o "&limit=" \o ToString(limit)
    IN  Issue(Request("search/title", api_url, <<>>), NoLocals)

(* ------------------------------ get_page ------------------------------- *)

GetPagePrepare(args) ==
    LET title == Get(args, "title", NoneStr)
        project == Get(args, "project", "wikipedia")
        language == Get(args, "language", "en")
        api_url == "https://" \o language \o "." \o project \o ".org/w/api.php"
        params == << <<"action", "query">>, <<"titles", title>>,
                     <<"prop", "revisions|info">>, <<"rvprop", "content|timestamp">>,
                     <<"rvslots", "main">>, <<"format", "json">>,
                     <<"redirects", "1">>, <<"inprop", "url">> >>
    IN  IF "title" \notin DOMAIN args
        THEN Finished(Raise("TypeError", NoneParamMsg))
        ELSE Issue(Request("query/revisions", api_url, params),
                   Locals(title, "", "", "", ""))

(* ---------------------------- get_languages ---------------------------- *)

GetLanguagesPrepare(args) ==
    LET title == Get(args, "title", NoneStr)
        project == Get(args, "project", "wikipedia")
        language == Get(args, "language", "en")
        api_url == "https://" \o language \o "." \o project \o ".org/w/api.php"
        params == << <<"action", "query">>, <<"titles", title>>,
                     <<"prop", "langlinks">>, <<"lllimit", "500">>,
                     <<"format", "json">>, <<"redirects", "1">> >>
    IN  IF "title" \notin DOMAIN args
        THEN Finished(Raise("TypeError", NoneParamMsg))
        ELSE Issue(Request("query/langlinks", api_url, params),
                   Locals(title, "", "", "", ""))

(* ----------------------------- get_featured ---------------------------- *)

\* supported_languages, and sorted(supported_languages)
SupportedLanguages == {"en", "de", "fr", "es", "ru", "ja", "zh"}

SortedSupportedLanguages == <<"de", "en", "es", "fr", "ja", "ru", "zh">>

IsLeap(y) == (y % 4 = 0 /\ y % 100 # 0) \/ y % 400 = 0

\* The calendar datetime.datetime is built on.
CalendarDays(y, m) ==
    IF m = 2 THEN (IF IsLeap(y) THEN 29 ELSE 28)
    ELSE IF m \in {4, 6, 9, 11} THEN 30 ELSE 31

\* datetime.datetime.strptime(date, "%Y/%m/%d") succeeds: four digits, one or
\* two digits in 1..12, one or two digits in 1..31, and a day of that month.
StrptimeYmdOk(date) ==
    LET parts == Split(date, "/")
    IN  /\ Len(parts) = 3
        /\ AllDigits(parts[1]) /\ Len(parts[1]) = 4
        /\ AllDigits(parts[2]) /\ Len(parts[2]) \in {1, 2}
        /\ AllDigits(parts[3]) /\ Len(parts[3]) \in {1, 2}
        /\ DigitsVal(parts[1]) >= 1
        /\ DigitsVal(parts[2]) \in 1..12
        /\ DigitsVal(parts[3]) >= 1
        /\ DigitsVal(parts[3]) <= CalendarDays(DigitsVal(parts[1]), DigitsVal(parts[2]))

\* now.strftime("%Y/%m/%d") for now = <<year, month, day>>
StrftimeYmd(now) == Fmt4(now[1]) \o <<"/">> \o Fmt2(now[2]) \o <<"/">> \o Fmt2(now[3])

\* now.strftime("%m/%d")
StrftimeMd(now) == Fmt2(now[2]) \o <<"/">> \o Fmt2(now[3])

\* Line 327: `if project != "wikipedia":`
FeaturedProjectRejected(project) == project # "wikipedia"

GetFeaturedPrepare(args, now) ==
    LET project == Get(args, "project", "wikipedia")
        language == Get(args, "language", "en")
        date == Get(args, "date", <<>>)
    IN  IF FeaturedProjectRejected(project)
        THEN Finished(Ret("Featured content is only available for Wikipedia, not "
                          \o project))
        ELSE IF language \notin SupportedLanguages
        THEN Finished(Ret("Featured content is not available for language '" \o language
                          \o "'. Supported languages are: "
                          \o StrJoin(", ", SortedSupportedLanguages)))
        ELSE IF date # <<>> /\ ~StrptimeYmdOk(date)
        THEN Finished(Ret("Invalid date format: " \o JoinChars(date)
                          \o ". Please use YYYY/MM/DD format (e.g., 2025/01/02)"))
        ELSE LET date2 == IF date # <<>> THEN date ELSE StrftimeYmd(now)
                 api_url == "https://api.wikimedia.org/feed/v1/" \o project \o "/"
                            \o language \o "/featured/" \o JoinChars(date2)
             IN  Issue(Request("featured", api_url, <<>>),
                       Locals("", JoinChars(date2), "", "", ""))

(* ---------------------------- get_on_this_day -------------------------- *)

\* valid_types, and sorted(valid_types)
ValidTypes == {"all", "selected", "births", "deaths", "holidays", "events"}

SortedValidTypes == <<"all", "births", "deaths", "events", "holidays", "selected">>

\* The days of the months of a year that is not a leap year.
DaysInMonth_Calendar == <<31, 28, 31, 30, 31, 30, 31, 31, 30, 31, 30, 31>>

\* days_in_month
DaysInMonth == <<31, 29, 31, 30, 31, 30, 31, 31, 30, 31, 30, 31>>

\* The checks without the one on the day.
OnThisDayCheckMonthDay_NoDayCheck(month, day) ==
    LET month_int == PyInt(month)
        day_int == PyInt(day)
    IN  IF ~month_int.ok
        THEN Raise("ValueError", "invalid literal for int() with base 10: '"
                                 \o JoinChars(month) \o "'")
        ELSE IF ~day_int.ok
        THEN Raise("ValueError", "invalid literal for int() with base 10: '"
                                 \o JoinChars(day) \o "'")
        ELSE IF ~(1 <= month_int.v /\ month_int.v <= 12)
        THEN Ret("Invalid month: " \o JoinChars(month) \o ". Must be between 01 and 12")
        ELSE Pending

\* The checks with the day checked (against 31) before the month.
OnThisDayCheckMonthDay_DayFirst(month, day) ==
    LET month_int == PyInt(month)
        day_int == PyInt(day)
    IN  IF ~month_int.ok
        THEN Raise("ValueError", "invalid literal for int() with base 10: '"
                                 \o JoinChars(month) \o "'")
        ELSE IF ~day_int.ok
        THEN Raise("ValueError", "invalid literal for int() with base 10: '"
                                 \o JoinChars(day) \o "'")
        ELSE IF ~(1 <= day_int.v /\ day_int.v <= 31)
        THEN Ret("Invalid day: " \o JoinChars(day) \o ". Month " \o JoinChars(month)
                 \o " has 31 days")
        ELSE IF ~(1 <= month_int.v /\ month_int.v <= 12)
        THEN Ret("Invalid month: " \o JoinChars(month) \o ". Must be between 01 and 12")
        ELSE IF ~(1 <= day_int.v /\ day_int.v <= DaysInMonth[month_int.v])
        THEN Ret("Invalid day: " \o JoinChars(day) \o ". Month " \o JoinChars(month)
                 \o " has " \o ToString(DaysInMonth[month_int.v]) \o " days")
        ELSE Pending

\* The month/day checks, from `month_int = int(month)` on; month and day are
\* the zero-filled strings.
OnThisDayCheckMonthDay(month, day) ==
    LET month_int == PyInt(month)
        day_int == PyInt(day)
    IN  IF ~month_int.ok
        THEN Raise("ValueError", "invalid literal for int() with base 10: '"
                                 \o JoinChars(month) \o "'")
        ELSE IF ~day_int.ok
        THEN Raise("ValueError", "invalid literal for int() with base 10: '"
                                 \o JoinChars(day) \o "'")
        ELSE IF ~(1 <= month_int.v /\ month_int.v <= 12)
        THEN Ret("Invalid month: " \o JoinChars(month) \o ". Must be between 01 and 12")
        ELSE IF ~(1 <= day_int.v /\ day_int.v <= DaysInMonth[month_int.v])
        THEN Ret("Invalid day: " \o JoinChars(day) \o ". Month " \o JoinChars(month)
                 \o " has " \o ToString(DaysInMonth[month_int.v]) \o " days")
        ELSE Pending

\* The check with the sister projects let through.
OnThisDayProjectRejected_Sisters(project) == project \notin {"wikipedia", "wiktionary"}

\* Line 426: `if project != "wikipedia":`
OnThisDayProjectRejected(project) == project # "wikipedia"
\* The checks with the project looked at before the event type.
GetOnThisDayPrepare_ProjectFirst(args, now) ==
    LET date == Get(args, "date", <<>>)
        type_ == Get(args, "type", "all")
        project == Get(args, "project", "wikipedia")
        language == Get(args, "language", "en")
    IN  IF OnThisDayProjectRejected(project)
        THEN Finished(Ret("On this day events are only available for Wikipedia, not "
                          \o project))
        ELSE IF type_ \notin ValidTypes
        THEN Finished(Ret("Invalid event type: '" \o type_ \o "'. Supported types are: "
                          \o StrJoin(", ", SortedValidTypes)))
        ELSE IF language \notin SupportedLanguages
        THEN Finished(Ret("On this day events are not available for language '"
                          \o language \o "'. Supported languages are: "
                          \o StrJoin(", ", SortedSupportedLanguages)))
        ELSE LET date2 == IF date = <<>> THEN StrftimeMd(now) ELSE date
                 parts == Split(date2, "/")
             IN  IF Len(parts) # 2
                 THEN Finished(Ret("Invalid date format: " \o JoinChars(date2)
                                   \o ". Please use MM/DD format (e.g., 01/28)"))
                 ELSE LET month == ZFill(parts[1], 2)
                          day == ZFill(parts[2], 2)
                          chk == OnThisDayCheckMonthDay(month, day)
                          endpoint == IF type_ = "all" THEN "all" ELSE type_
                          api_url == "https://api.wikimedia.org/feed/v1/" \o project
                                     \o "/" \o language \o "/onthisday/" \o endpoint
                                     \o "/" \o JoinChars(month) \o "/" \o JoinChars(day)
                      IN  IF chk.k # "pending" THEN Finished(chk)
                          ELSE Issue(Request("onthisday", api_url, <<>>),
                                     Locals("", "", JoinChars(month), JoinChars(day),
                                            type_))

GetOnThisDayPrepare(args, now) ==
    LET date == Get(args, "date", <<>>)
        type_ == Get(args, "type", "all")
        project == Get(args, "project", "wikipedia")
        language == Get(args, "language", "en")
    IN  IF type_ \notin ValidTypes
        THEN Finished(Ret("Invalid event type: '" \o type_ \o "'. Supported types are: "
                          \o StrJoin(", ", SortedValidTypes)))
        ELSE IF OnThisDayProjectRejected(project)
        THEN Finished(Ret("On this day events are only available for Wikipedia, not "
                          \o project))
        ELSE IF language \notin SupportedLanguages
        THEN Finished(Ret("On this day events are not available for language '"
                          \o language \o "'. Supported languages are: "
                          \o StrJoin(", ", SortedSupportedLanguages)))
        ELSE LET date2 == IF date = <<>> THEN StrftimeMd(now) ELSE date
                 parts == Split(date2, "/")
             IN  IF Len(parts) # 2
                 THEN Finished(Ret("Invalid date format: " \o JoinChars(date2)
                                   \o ". Please use MM/DD format (e.g., 01/28)"))
                 ELSE LET month == ZFill(parts[1], 2)
                          day == ZFill(parts[2], 2)
                          chk == OnThisDayCheckMonthDay(month, day)
                          endpoint == IF type_ = "all" THEN "all" ELSE type_
                          api_url == "https://api.wikimedia.org/feed/v1/" \o project
                                     \o "/" \o language \o "/onthisday/" \o endpoint
                                     \o "/" \o JoinChars(month) \o "/" \o JoinChars(day)
                      IN  IF chk.k # "pending" THEN Finished(chk)
                          ELSE Issue(Request("onthisday", api_url, <<>>),
                                     Locals("", "", JoinChars(month), JoinChars(day),
                                            type_))

(* ------------------------ response transformers ----------------------- *)

SpanOpen == "<span class=\"searchmatch\">"

SpanClose == "</span>"

\* excerpt.replace(SpanOpen, '**').replace(SpanClose, '**'); an excerpt is the
\* list of its fragments, each tag a fragment of its own.
ExcerptReplace(excerpt) ==
    JoinChars([i \in 1..Len(excerpt) |->
                  IF excerpt[i] \in {SpanOpen, SpanClose} THEN "**" ELSE excerpt[i]])

\* Lines 121-136: the body of search_content after `data = await response.json()`.
SearchContentTransform(data) ==
    LET pages == Get(data, "pages", <<>>)
        entry(page) == "# " \o page["title"] \o "\n\n" \o Get(page, "description", "")
                       \o "\n\n" \o ExcerptReplace(Get(page, "excerpt", <<>>))
    IN  IF \E i \in 1..Len(pages) : "title" \notin DOMAIN pages[i]
        THEN Raise("KeyError", "'title'")
        ELSE Ret(StrJoin("\n\n---\n\n", [i \in 1..Len(pages) |-> entry(pages[i])]))

\* Lines 225-237.
SearchTitlesTransform(data) ==
    LET pages == Get(data, "pages", <<>>)
        entry(page) == "# " \o page["title"] \o "\n" \o Get(page, "description", "")
    IN  IF \E i \in 1..Len(pages) : "title" \notin DOMAIN pages[i]
        THEN Raise("KeyError", "'title'")
        ELSE Ret(StrJoin("\n\n---\n\n", [i \in 1..Len(pages) |-> entry(pages[i])]))

\* revision["slots"]["main"]["*"] and revision["timestamp"]: the first key that
\* is missing, or "" when all are there.
RevisionMissingKey(revision) ==
    IF "slots" \notin DOMAIN revision THEN "slots"
    ELSE IF "main" \notin DOMAIN revision["slots"] THEN "main"
    ELSE IF "*" \notin DOMAIN revision["slots"]["main"] THEN "*"
    ELSE IF "timestamp" \notin DOMAIN revision THEN "timestamp"
    ELSE ""

\* The title taken from the first redirect instead of the last.
FinalTitle_First(page, query) ==
    IF "redirects" \in DOMAIN query
    THEN query["redirects"][1]["to"]
    ELSE page["title"]

\* Lines 187-190: the title get_page renders.
FinalTitle(page, query) ==
    IF "redirects" \in DOMAIN query
    THEN query["redirects"][Len(query["redirects"])]["to"]
    ELSE page["title"]

\* Lines 160-204; query["pages"] is the list of the page objects in the
\* order of the dict (the code reads list(pages.values())[0]).
GetPageTransform(title, data) ==
    LET query == Get(data, "query", EmptyDict)
        pages == Get(query, "pages", <<>>)
        page == pages[1]
        revision == page["revisions"][1]
    IN  IF pages = <<>> THEN Ret("Page '" \o title \o "' not found")
        ELSE IF "missing" \in DOMAIN page THEN Ret("Page '" \o title \o "' not found")
        ELSE IF "revisions" \notin DOMAIN page THEN Raise("KeyError", "'revisions'")
        ELSE IF page["revisions"] = <<>> THEN Raise("IndexError", "list index out of range")
        ELSE IF RevisionMissingKey(revision) # ""
        THEN Raise("KeyError", "'" \o RevisionMissingKey(revision) \o "'")
        ELSE IF "title" \notin DOMAIN page THEN Raise("KeyError", "'title'")
        ELSE IF "redirects" \in DOMAIN query /\ query["redirects"] = <<>>
        THEN Raise("IndexError", "list index out of range")
        ELSE IF "redirects" \in DOMAIN query
                /\ "to" \notin DOMAIN query["redirects"][Len(query["redirects"])]
        THEN Raise("KeyError", "'to'")
        ELSE Ret("# " \o FinalTitle(page, query) \o "\n\n"
                 \o revision["slots"]["main"]["*"]
                 \o "\n\nLast modified: " \o revision["timestamp"])

\* Characters in the order of their code points ('-' < digits < letters).
CodeOrder ==
    <<"-", "0", "1", "2", "3", "4", "5", "6", "7", "8", "9",
      "a", "b", "c", "d", "e", "f", "g", "h", "i", "j", "k", "l", "m",
      "n", "o", "p", "q", "r", "s", "t", "u", "v", "w", "x", "y", "z">>

Ord(ch) == CHOOSE i \in 1..Len(CodeOrder) : CodeOrder[i] = ch

\* a < b for two Python strings (given as character lists).
RECURSIVE StrLess(_, _)
StrLess(a, b) ==
    IF b = <<>> THEN FALSE
    ELSE IF a = <<>> THEN TRUE
    ELSE IF Head(a) # Head(b) THEN Ord(Head(a)) < Ord(Head(b))
    ELSE StrLess(Tail(a), Tail(b))

\* Insert x after the elements of the sorted list that are not greater.
RECURSIVE InsertByLang(_, _)
InsertByLang(sorted, x) ==
    IF sorted = <<>> THEN <<x>>
    ELSE IF StrLess(x["lang"], Head(sorted)["lang"]) THEN <<x>> \o sorted
    ELSE <<Head(sorted)>> \o InsertByLang(Tail(sorted), x)

\* The links left in the upstream's order.
SortedByLang_Unsorted(links) == links

\* sorted(langlinks, key=lambda x: x["lang"]): a stable sort.
RECURSIVE SortedByLang(_)
SortedByLang(links) ==
    IF links = <<>> THEN <<>>
    ELSE InsertByLang(SortedByLang(SubSeq(links, 1, Len(links) - 1)), links[Len(links)])

\* f"- [{lang_code}] {lang_title}"
LangLine(link) == "- [" \o JoinChars(link["lang"]) \o "] " \o link["*"]

\* Lines 259-311.
GetLanguagesTransform(title, data) ==
    LET query == Get(data, "query", EmptyDict)
        pages == Get(query, "pages", <<>>)
        page == pages[1]
        links == page["langlinks"]
        lang_links == SortedByLang(links)
        results == [i \in 1..Len(lang_links) |-> LangLine(lang_links[i])]
    IN  IF pages = <<>> THEN Ret("Page '" \o title \o "' not found")
        ELSE IF "missing" \in DOMAIN page THEN Ret("Page '" \o title \o "' not found")
        ELSE IF "langlinks" \notin DOMAIN page
        THEN Ret("No language links found for '" \o title \o "'")
        ELSE IF \E i \in 1..Len(links) : "lang" \notin DOMAIN links[i]
        THEN Raise("KeyError", "'lang'")
        ELSE IF \E i \in 1..Len(links) : "*" \notin DOMAIN links[i]
        THEN Raise("KeyError", "'*'")
        ELSE IF results = <<>>
        THEN Ret("No language links found for '" \o title \o "'")
        ELSE Ret("Found " \o ToString(Len(results)) \o " language versions:\n\n"
                 \o StrJoin("\n", results))

\* Lines 367-399.
GetFeaturedTransform(date, data) ==
    LET tfaSec ==
            IF "tfa" \in DOMAIN data
            THEN << "# Today's Featured Article\n\n## " \o Get(data["tfa"], "title", "")
                    \o "\n\n" \o Get(data["tfa"], "extract", "") >>
            ELSE <<>>
        articles == IF "mostread" \in DOMAIN data
                    THEN Prefix(Get(data["mostread"], "articles", <<>>), 5)
                    ELSE <<>>
        mostSec ==
            IF articles # <<>>
            THEN << "# Most Read Articles\n\n"
                    \o StrJoin("\n\n", [i \in 1..Len(articles) |->
                           "## " \o Get(articles[i], "title", "") \o "\n"
                           \o Get(articles[i], "extract", "")]) >>
            ELSE <<>>
        imageSec ==
            IF "image" \in DOMAIN data
            THEN << "# Picture of the Day\n\n## " \o Get(data["image"], "title", "")
                    \o "\n\n"
                    \o Get(Get(data["image"], "description", EmptyDict), "text", "") >>
            ELSE <<>>
        sections == tfaSec \o mostSec \o imageSec
    IN  IF sections = <<>> THEN Ret("No featured content found for date: " \o date)
        ELSE Ret(StrJoin("\n\n---\n\n", sections))

\* A rendering that also builds a section for the type "events", out of the
\* `events` field of the answer.
GetOnThisDayTransform_Events(type_, month, day, data) ==
    LET section(type, key, head, n) ==
            IF (type_ = "all" \/ type_ = type) /\ key \in DOMAIN data
            THEN LET items == IF n = 0 THEN data[key] ELSE Prefix(data[key], n)
                 IN  << head \o StrJoin("\n\n", [i \in 1..Len(items) |->
                               "## " \o Get(items[i], "year", "") \o " - "
                               \o Get(items[i], "text", "")]) >>
            ELSE <<>>
        sections == section("selected", "selected", "# Selected Events\n\n", 10)
                    \o section("events", "events", "# Events\n\n", 10)
                    \o section("births", "births", "# Births\n\n", 5)
                    \o section("deaths", "deaths", "# Deaths\n\n", 5)
                    \o section("holidays", "holidays", "# Holidays and Observances\n\n", 0)
    IN  IF sections = <<>>
        THEN Ret("No " \o type_ \o " events found for date: " \o month \o "/" \o day)
        ELSE Ret(StrJoin("\n\n---\n\n", sections))

\* Lines 494-541.
GetOnThisDayTransform(type_, month, day, data) ==
    LET selSec ==
            IF (type_ = "all" \/ type_ = "selected") /\ "selected" \in DOMAIN data
            THEN LET events == Prefix(data["selected"], 10)
                 IN  << "# Selected Events\n\n"
                        \o StrJoin("\n\n", [i \in 1..Len(events) |->
                               "## " \o Get(events[i], "year", "") \o "\n"
                               \o Get(events[i], "text", "")]) >>
            ELSE <<>>
        birthSec ==
            IF (type_ = "all" \/ type_ = "births") /\ "births" \in DOMAIN data
            THEN LET births == Prefix(data["births"], 5)
                 IN  << "# Births\n\n"
                        \o StrJoin("\n\n", [i \in 1..Len(births) |->
                               "## " \o Get(births[i], "year", "") \o " - "
                               \o Get(births[i], "text", "")]) >>
            ELSE <<>>
        deathSec ==
            IF (type_ = "all" \/ type_ = "deaths") /\ "deaths" \in DOMAIN data
            THEN LET deaths == Prefix(data["deaths"], 5)
                 IN  << "# Deaths\n\n"
                        \o StrJoin("\n\n", [i \in 1..Len(deaths) |->
                               "## " \o Get(deaths[i], "year", "") \o " - "
                               \o Get(deaths[i], "text", "")]) >>
            ELSE <<>>
        holSec ==
            IF (type_ = "all" \/ type_ = "holidays") /\ "holidays" \in DOMAIN data
            THEN LET holidays == data["holidays"]
                 IN  << "# Holidays and Observances\n\n"
                        \o StrJoin("\n\n", [i \in 1..Len(holidays) |->
                               "- " \o Get(holidays[i], "text", "")]) >>
            ELSE <<>>
        sections == selSec \o birthSec \o deathSec \o holSec
    IN  IF sections = <<>>
        THEN Ret("No " \o type_ \o " events found for date: " \o month \o "/" \o day)
        ELSE Ret(StrJoin("\n\n---\n\n", sections))

(* --------------------------- the HTTP exchange -------------------------- *)

\* What the upstream does with one GET: the request fails in transport or
\* times out, the status is not 2xx, the body is not JSON (by its content
\* type, or by its text), the body is a JSON list, or the body is a JSON dict.
Outcome(kind, msg, data) == [kind |-> kind, msg |-> msg, data |-> data]

Json(data) == Outcome("json", "", data)

\* `async with session.get(...) as response:` raises, or yields the response.
HttpGet(outcome) ==
    IF outcome.kind = "transport" THEN Raise("ClientConnectorError", outcome.msg)
    ELSE IF outcome.kind = "timeout" THEN Raise("TimeoutError", outcome.msg)
    ELSE Pending

\* response.raise_for_status()
RaiseForStatus(outcome) ==
    IF outcome.kind = "status" THEN Raise("ClientResponseError", outcome.msg)
    ELSE Pending

\* await response.json()
ResponseJson(outcome) ==
    IF outcome.kind = "notjson" THEN Raise("ContentTypeError", outcome.msg)
    ELSE IF outcome.kind = "badjson" THEN Raise("JSONDecodeError", outcome.msg)
    ELSE Pending

(* --------------------------- the dispatcher ---------------------------- *)

ToolNames ==
    {"search_content", "get_page", "search_titles", "get_languages",
     "get_featured", "get_on_this_day"}

\* The branches whose body is wrapped in `try: ... except Exception as e:`.
InnerTryTools == {"get_page", "get_languages", "get_featured", "get_on_this_day"}

InnerPrefix(name) ==
    IF name = "get_page" THEN "Error retrieving page: "
    ELSE IF name = "get_languages" THEN "Error retrieving language links: "
    ELSE IF name = "get_featured" THEN "Error retrieving featured content: "
    ELSE "Error retrieving historical events: "

\* The branch's own `except Exception as e: return [...]`.
InnerExcept(name, r) ==
    IF r.k = "raise" THEN Ret(InnerPrefix(name) \o r.msg) ELSE r

\* The statements p of branch `name` up to its await, inside the branch's try.
InnerTry(name, p) == [p EXCEPT !.res = InnerExcept(name, p.res)]

\* The outer try without its last handler, `except Exception`.
OuterExcept_NoCatchAll(r) ==
    IF r.k # "raise" THEN r
    ELSE IF r.cls \in ClientErrors THEN Ret("Error accessing Wikipedia API: " \o r.msg)
    ELSE IF r.cls \in ValueErrors THEN Ret("Error: " \o r.msg)
    ELSE r

\* Lines 552-572: the handlers of the outer try, in their order.
OuterExcept(r) ==
    IF r.k # "raise" THEN r
    ELSE IF r.cls \in ClientErrors THEN Ret("Error accessing Wikipedia API: " \o r.msg)
    ELSE IF r.cls \in ValueErrors THEN Ret("Error: " \o r.msg)
    ELSE Ret("Unexpected error: " \o r.msg)

\* A dispatcher whose branches have no try of their own: every exception
\* goes to the outer handlers.
Complete_NoInner(name, r) == OuterExcept(r)

\* What leaves handle_call_tool when a statement after the await of branch
\* `name` ends in r.
Complete(name, r) ==
    OuterExcept(IF name \in InnerTryTools THEN InnerExcept(name, r) ELSE r)

\* The chain with the get_languages branch misspelt.
Prepare_Typo(name, args, now) ==
    IF name = "search_content" THEN SearchContentPrepare(args)
    ELSE IF name = "get_page" THEN InnerTry(name, GetPagePrepare(args))
    ELSE IF name = "search_titles" THEN SearchTitlesPrepare(args)
    ELSE IF name = "get_language" THEN InnerTry(name, GetLanguagesPrepare(args))
    ELSE IF name = "get_featured" THEN InnerTry(name, GetFeaturedPrepare(args, now))
    ELSE IF name = "get_on_this_day" THEN InnerTry(name, GetOnThisDayPrepare(args, now))
    ELSE Finished(Raise("ValueError", "Unknown tool: " \o name))

\* Lines 109-550 up to the await: the if/elif chain on the tool name, each
\* branch up to its session.get (four of them in a try of their own), and
\* the raise after the chain.
Prepare(name, args, now) ==
    IF name = "search_content" THEN SearchContentPrepare(args)
    ELSE IF name = "get_page" THEN InnerTry(name, GetPagePrepare(args))
    ELSE IF name = "search_titles" THEN SearchTitlesPrepare(args)
    ELSE IF name = "get_languages" THEN InnerTry(name, GetLanguagesPrepare(args))
    ELSE IF name = "get_featured" THEN InnerTry(name, GetFeaturedPrepare(args, now))
    ELSE IF name = "get_on_this_day" THEN InnerTry(name, GetOnThisDayPrepare(args, now))
    ELSE Finished(Raise("ValueError", "Unknown tool: " \o name))

\* The branch's statements after `data = await response.json()`.
ToolTransform(name, locals, outcome) ==
    IF name = "get_featured" THEN GetFeaturedTransform(locals.date, outcome.data)
    ELSE IF name = "get_on_this_day"
    THEN GetOnThisDayTransform(locals.type_, locals.month, locals.day, outcome.data)
    ELSE IF outcome.kind = "json_list"
    THEN Raise("AttributeError", "'list' object has no attribute 'get'")
    ELSE IF name = "search_content" THEN SearchContentTransform(outcome.data)
    ELSE IF name = "search_titles" THEN SearchTitlesTransform(outcome.data)
    ELSE IF name = "get_page" THEN GetPageTransform(locals.title, outcome.data)
    ELSE GetLanguagesTransform(locals.title, outcome.data)

(* ------------------------------ the state ------------------------------ *)

CallIds == 1..NumCalls

SessionIds == 1..NumCalls

\* A coroutine that is not running handle_call_tool.
IdleCall ==
    [pc |-> "Idle", name |-> "", arguments |-> <<>>, args |-> EmptyDict,
     session |-> 0, nreq |-> 0, locals |-> NoLocals, resp |-> <<>>,
     result |-> Pending]

\* An aiohttp.ClientSession that does not exist (not created yet, or closed).
ClosedSession == [open |-> FALSE, req |-> <<>>, resp |-> <<>>]

\* One session object kept at module level and used by every call.
NewSession_Shared == CHOOSE s \in SessionIds : \A t \in SessionIds : s <= t

\* aiohttp.ClientSession(): a new object, distinct from every live session.
NewSession == CHOOSE s \in SessionIds : ~net[s].open /\ \A t \in 1..(s - 1) : net[t].open

Init ==
    /\ calls = [c \in CallIds |-> IdleCall]
    /\ net = [s \in SessionIds |-> ClosedSession]

\* Lines 100-107: the host calls handle_call_tool(name, arguments); None
\* becomes {} and the session is created.
Invoke(c, name, arguments) ==
    /\ calls[c].pc = "Idle"
    /\ LET s == NewSession
       IN  /\ calls' = [calls EXCEPT ![c] =
                  [IdleCall EXCEPT !.pc = "Validating", !.name = name,
                                   !.arguments = arguments,
                                   !.args = IF arguments = <<>> THEN EmptyDict
                                            ELSE arguments[1],
                                   !.session = s]]
           /\ net' = [net EXCEPT ![s] = [ClosedSession EXCEPT !.open = TRUE]]

\* The call leaves handle_call_tool with result r, having read `read` from
\* its session (<<>>: nothing): the `async with` block of line 107 closes the
\* session on the way out.
Leave(c, r, read) ==
    /\ calls' = [calls EXCEPT ![c].pc = "Done", ![c].result = r, ![c].resp = read]
    /\ net' = [net EXCEPT ![calls[c].session] = ClosedSession]

\* The branch runs up to its await: it returns (or raises) before any
\* request, or it issues its GET on the call's session.
Validate(c, now) ==
    /\ calls[c].pc = "Validating"
    /\ LET p == Prepare(calls[c].name, calls[c].args, now)
       IN  IF p.res.k = "pending"
           THEN /\ calls' = [calls EXCEPT ![c].pc = "Requesting",
                                          ![c].nreq = calls[c].nreq + 1,
                                          ![c].locals = p.locals]
                /\ net' = [net EXCEPT ![calls[c].session].req = p.req]
           ELSE Leave(c, OuterExcept(p.res), <<>>)

\* The routes of the requests in flight on session s (one at most).
RoutesOn(s) == {net[s].req[i].endpoint : i \in 1..Len(net[s].req)}

\* The upstream answers the request in flight on session s.
Upstream(s, outcome) ==
    /\ net[s].open
    /\ net[s].req # <<>>
    /\ net[s].resp = <<>>
    /\ net' = [net EXCEPT ![s].resp = <<outcome>>]
    /\ UNCHANGED calls

\* A dispatcher that tries its GET a second time when the first one failed.
Receive_Retry(c) ==
    /\ calls[c].pc = "Requesting"
    /\ net[calls[c].session].resp # <<>>
    /\ LET outcome == net[calls[c].session].resp[1]
           got == HttpGet(outcome)
           r == IF got.k = "raise" THEN got ELSE RaiseForStatus(outcome)
       IN  IF r.k = "raise" /\ calls[c].nreq < 2
           THEN /\ calls' = [calls EXCEPT ![c].nreq = calls[c].nreq + 1]
                /\ net' = [net EXCEPT ![calls[c].session].resp = <<>>]
           ELSE IF r.k = "raise"
           THEN Leave(c, Complete(calls[c].name, r), <<outcome>>)
           ELSE /\ calls' = [calls EXCEPT ![c].pc = "Transforming",
                                          ![c].resp = <<outcome>>]
                /\ UNCHANGED net

\* session.get completes and raise_for_status runs.
Receive(c) ==
    /\ calls[c].pc = "Requesting"
    /\ net[calls[c].session].resp # <<>>
    /\ LET outcome == net[calls[c].session].resp[1]
           got == HttpGet(outcome)
           r == IF got.k = "raise" THEN got ELSE RaiseForStatus(outcome)
       IN  IF r.k = "raise"
           THEN Leave(c, Complete(calls[c].name, r), <<outcome>>)
           ELSE /\ calls' = [calls EXCEPT ![c].pc = "Transforming",
                                          ![c].resp = <<outcome>>]
                /\ UNCHANGED net

\* The body is parsed and rendered.
Transform(c) ==
    /\ calls[c].pc = "Transforming"
    /\ LET outcome == calls[c].resp[1]
           parsed == ResponseJson(outcome)
           r == IF parsed.k = "raise" THEN parsed
                ELSE ToolTransform(calls[c].name, calls[c].locals, outcome)
       IN  Leave(c, Complete(calls[c].name, r), <<outcome>>)

\* The host takes the result; the coroutine is free for the next call.
Return(c) ==
    /\ calls[c].pc = "Done"
    /\ calls' = [calls EXCEPT ![c] = IdleCall]
    /\ UNCHANGED net

(* ------------------------- the inputs of a call ------------------------ *)

\* The dict with the keys of K only.
Restrict(full, K) == [k \in K |-> full[k]]

\* str(n) for 0 <= n <= 99
NumChars(n) == IF n < 10 THEN <<Digits[n + 1]>> ELSE Fmt2(n)

UnknownNames == {"get_weather", "Search_Content"}

Projects == {"wikipedia", "wiktionary"}

Languages == {"en", "zh", "xx"}

Limits == {-1, 0, 1, 10, 50, 51, 100, 101}

EventTypes == ValidTypes \cup {"anniversaries"}

\* The argument dicts a search tool is called with.
SearchBags ==
    {Restrict([query |-> "cat", limit |-> l, project |-> p, language |-> g], K) :
        l \in Limits, p \in Projects, g \in {"en", "xx"},
        K \in SUBSET {"query", "limit", "project", "language"}}

\* ... get_page and get_languages
TitleBags ==
    {Restrict([title |-> "Foo", project |-> p, language |-> g], K) :
        p \in Projects, g \in {"en", "xx"}, K \in SUBSET {"title", "project", "language"}}

\* Dates given to get_featured: year/month/day in and out of range, padded
\* and not, and strings of another form; <<>> is the empty string.
FeaturedDates ==
    {Fmt4(y) \o <<"/">> \o m \o <<"/">> \o d :
        y \in {2024, 2025},
        m \in {<<"0", "2">>, <<"2">>, <<"1", "3">>, <<"0", "0">>},
        d \in {<<"2", "9">>, <<"3", "0">>, <<"1">>}}
    \cup {<<>>, <<"t", "o", "d", "a", "y">>, <<"0", "2", "/", "2", "9">>,
          <<"2", "0", "2", "5", "-", "0", "1", "-", "0", "2">>}

FeaturedBags ==
    {Restrict([date |-> d, project |-> p, language |-> g], K) :
        d \in FeaturedDates, p \in Projects, g \in Languages,
        K \in SUBSET {"date", "project", "language"}}

MonthParts ==
    {NumChars(m) : m \in 0..13}
    \cup {<<"0", "2">>, <<"0", "0", "2">>, <<"-", "1">>, <<"x", "x">>, <<>>}

DayParts ==
    {NumChars(d) : d \in {0, 1, 28, 29, 30, 31, 32, 40}}
    \cup {<<"0", "1">>, <<"-", "5">>, <<"x">>, <<>>}

\* Dates given to get_on_this_day: every month part with every day part, and
\* strings with no or two separators; <<>> is the empty string.
OnThisDayDates ==
    {m \o <<"/">> \o d : m \in MonthParts, d \in DayParts}
    \cup {<<>>, <<"0", "1", "2", "8">>, <<"1", "/", "2", "/", "3">>}

\* The dates that are combined with every type, project and language.
OnThisDayFewDates ==
    {<<"2", "/", "3", "0">>, <<"1", "3", "/", "4", "0">>, <<"0", "2", "/", "2", "9">>,
     <<"x", "/", "1">>}

\* get_on_this_day is called with every date (the other arguments absent or
\* at one valid value), and with every combination of the other arguments
\* (the date absent or one of a few).
OnThisDayBags ==
    {Restrict([date |-> d, type |-> "all", project |-> "wikipedia", language |-> "en"], K) :
        d \in OnThisDayDates, K \in {{"date"}}}
    \cup
    {[date |-> d, type |-> "all", project |-> "wikipedia", language |-> "en"] :
        d \in {NumChars(m) \o <<"/">> \o NumChars(1) : m \in 0..13}}
    \cup
    {Restrict([date |-> d, type |-> t, project |-> p, language |-> g], K) :
        d \in OnThisDayFewDates, t \in EventTypes, p \in Projects, g \in Languages,
        K \in SUBSET {"date", "type", "project", "language"}}

BagsOf(name) ==
    IF name \in {"search_content", "search_titles"} THEN SearchBags
    ELSE IF name \in {"get_page", "get_languages"} THEN TitleBags
    ELSE IF name = "get_featured" THEN FeaturedBags
    ELSE IF name = "get_on_this_day" THEN OnThisDayBags
    ELSE {EmptyDict, [query |-> "cat"]}

\* handle_call_tool(name, arguments): arguments is None (<<>>) or a dict.
ArgumentsOf(name) == {<<>>} \cup {<<bag>> : bag \in BagsOf(name)}

\* What datetime.datetime.now() may return: <<year, month, day>>.
Nows == {<<2024, 2, 29>>, <<2025, 1, 28>>, <<2025, 12, 31>>}

(* ------------------------ the upstream's answers ----------------------- *)

\* The lists over S of length at most n.
SeqsUpTo(S, n) == UNION {[1..k -> S] : k \in 0..n}

\* The answers that carry no JSON dict.
FailureOutcomes ==
    {Outcome("transport", "Cannot connect to host api.wikimedia.org:443", EmptyDict),
     Outcome("timeout", "", EmptyDict),
     Outcome("status", "404, message='Not Found'", EmptyDict),
     Outcome("notjson", "0, message='Attempt to decode JSON with unexpected mimetype: text/html'",
             EmptyDict),
     Outcome("badjson", "Expecting value: line 1 column 1 (char 0)", EmptyDict),
     Outcome("json_list", "", EmptyDict)}

\* Entries of a search answer's `pages`: complete, title only, no title.
SearchPageObjs ==
    {[title |-> "Cat", description |-> "Small domesticated mammal",
      excerpt |-> <<"a ", SpanOpen, "cat", SpanClose, " sat">>],
     [title |-> "Dog"],
     [description |-> "Untitled"]}

SearchData ==
    {EmptyDict} \cup {[pages |-> ps] : ps \in SeqsUpTo(SearchPageObjs, MaxPages)}

RevisionFull ==
    [slots |-> [main |-> ("*" :> "Body text")], timestamp |-> "2024-05-01T12:00:00Z"]

RevisionNoTimestamp == [slots |-> [main |-> ("*" :> "Body text")]]

\* Page objects of a revisions query: missing, complete, without revisions
\* (an invalid title), with an empty or incomplete revision, without title.
RevisionPageObjs ==
    {[title |-> "Foo", missing |-> ""],
     [title |-> "Bar", revisions |-> <<RevisionFull>>],
     [title |-> "Bar", invalidreason |-> "The requested page title is empty."],
     [title |-> "Bar", revisions |-> <<>>],
     [title |-> "Bar", revisions |-> <<RevisionNoTimestamp>>],
     [revisions |-> <<RevisionFull>>]}

RedirectObjs == {[from |-> "Foo", to |-> "Baz"], [from |-> "Baz", to |-> "Qux"]}

RedirectLists == SeqsUpTo(RedirectObjs, MaxRedirects) \cup {<<[from |-> "Foo"]>>}

RevisionPageLists ==
    {<<>>} \cup {<<p>> : p \in RevisionPageObjs}
    \cup {<<[title |-> "Bar", revisions |-> <<RevisionFull>>], [title |-> "Foo", missing |-> ""]>>}

RevisionsData ==
    {EmptyDict, [query |-> EmptyDict]}
    \cup {[query |-> [pages |-> ps]] : ps \in RevisionPageLists}
    \cup {[query |-> [pages |-> ps, redirects |-> rs]] :
             ps \in RevisionPageLists, rs \in RedirectLists}

Link(code, title) == [lang |-> code] @@ ("*" :> title)

LinkObjs ==
    {Link(<<"f", "r">>, "France"), Link(<<"d", "e">>, "Frankreich"),
     Link(<<"e", "s">>, "Francia"), Link(<<"d", "e">>, "Frankreich (Land)")}

LinkLists ==
    SeqsUpTo(LinkObjs, MaxLinks)
    \cup {<<[lang |-> <<"f", "r">>]>>, <<Link(<<"f", "r">>, "France"), ("*" :> "Francia")>>}

LanglinksData ==
    {EmptyDict, [query |-> [pages |-> <<>>]],
     [query |-> [pages |-> <<[title |-> "Foo", missing |-> ""]>>]],
     [query |-> [pages |-> <<[title |-> "Bar"]>>]]}
    \cup {[query |-> [pages |-> <<[title |-> "Bar", langlinks |-> ls]>>]] : ls \in LinkLists}

\* n articles, events, births or deaths
Items(n) ==
    [i \in 1..n |-> [title |-> "Title " \o ToString(i), extract |-> "Extract " \o ToString(i),
                     year |-> ToString(1900 + i), text |-> "Text " \o ToString(i)]]

FeaturedData ==
    {Restrict([tfa |-> t, mostread |-> m, image |-> i], K) :
        t \in {[title |-> "Cat", extract |-> "The cat is a mammal."], [extract |-> "Untitled"]},
        m \in {[articles |-> Items(0)], [articles |-> Items(2)], [articles |-> Items(6)],
               [country |-> "US"]},
        i \in {[title |-> "File:Cat.jpg", description |-> [text |-> "A cat"]],
               [title |-> "File:Cat.jpg"]},
        K \in SUBSET {"tfa", "mostread", "image"}}

OnThisDayData ==
    {Restrict([selected |-> s, births |-> b, deaths |-> d, holidays |-> h, events |-> e], K) :
        s \in {Items(0), Items(11)},
        b \in {Items(0), Items(6)},
        d \in {Items(6)},
        h \in {<<>>, <<[text |-> "New Year's Day"], [pages |-> <<>>]>>},
        e \in {Items(2)},
        K \in SUBSET {"selected", "births", "deaths", "holidays", "events"}}

\* Every outcome of a GET on the route.
Outcomes(endpoint) ==
    FailureOutcomes \cup
    {Json(d) : d \in
        IF endpoint \in {"search/page", "search/title"} THEN SearchData
        ELSE IF endpoint = "query/revisions" THEN RevisionsData
        ELSE IF endpoint = "query/langlinks" THEN LanglinksData
        ELSE IF endpoint = "featured" THEN FeaturedData
        ELSE OnThisDayData}

(* --------------------------- specifications ---------------------------- *)

\* One call at a time, with every input and every outcome of the model.
Next ==
    \/ \E name \in ToolNames \cup UnknownNames :
          \E arguments \in ArgumentsOf(name) : Invoke(1, name, arguments)
    \/ \E now \in Nows : Validate(1, now)
    \/ \E s \in SessionIds :
          \E route \in RoutesOn(s) : \E outcome \in Outcomes(route) : Upstream(s, outcome)
    \/ Receive(1)
    \/ Transform(1)
    \/ Return(1)

Spec == Init /\ [][Next]_vars

\* Calls that run at the same time: NumCalls coroutines, each with one of a
\* few inputs; the upstream answers each request with one of a few outcomes.
ConcInputs ==
    {<<"search_content", <<[query |-> "cat", limit |-> 51]>>>>,
     <<"get_page", <<[title |-> "Foo"]>>>>,
     <<"get_on_this_day", <<[date |-> <<"2", "/", "3", "0">>]>>>>,
     <<"get_weather", <<>>>>}

ConcOutcomes(endpoint) ==
    {Outcome("status", "404, message='Not Found'", EmptyDict)} \cup
    {Json(d) : d \in
        IF endpoint = "search/page" THEN {[pages |-> <<[title |-> "Dog"]>>]}
        ELSE {[query |-> [pages |-> <<[title |-> "Bar", revisions |-> <<RevisionFull>>]>>,
                          redirects |-> <<[from |-> "Foo", to |-> "Bar"]>>]]}}

NextConc ==
    \/ \E c \in CallIds :
          \/ \E in \in ConcInputs : Invoke(c, in[1], in[2])
          \/ \E now \in Nows : Validate(c, now)
          \/ Receive(c)
          \/ Transform(c)
          \/ Return(c)
    \/ \E s \in SessionIds :
          \E route \in RoutesOn(s) : \E outcome \in ConcOutcomes(route) : Upstream(s, outcome)

SpecConc == Init /\ [][NextConc]_vars

\* One call at a time again, with a few inputs of every tool and, for each
\* request, every kind of failure and a few JSON answers.
LiveInputs ==
    ConcInputs \cup
    {<<"search_titles", <<[query |-> "cat"]>>>>,
     <<"get_page", <<>>>>,
     <<"get_languages", <<[title |-> "Bar"]>>>>,
     <<"get_featured", <<>>>>,
     <<"get_featured", <<[project |-> "wikinews"]>>>>,
     <<"get_on_this_day", <<[type |-> "births"]>>>>}

LiveOutcomes(endpoint) ==
    FailureOutcomes \cup {Json(EmptyDict)} \cup ConcOutcomes(endpoint)

NextLive ==
    \/ \E in \in LiveInputs : Invoke(1, in[1], in[2])
    \/ \E now \in Nows : Validate(1, now)
    \/ \E s \in SessionIds :
          \E route \in RoutesOn(s) : \E outcome \in LiveOutcomes(route) : Upstream(s, outcome)
    \/ Receive(1)
    \/ Transform(1)
    \/ Return(1)

\* The event loop runs a coroutine that can take a step, and the upstream
\* answers a request in flight (it returns, fails or times out): the
\* dispatcher's steps and the upstream's are weakly fair. Nothing obliges the
\* host to call again or to take a result.
Fairness ==
    /\ WF_vars(\E now \in Nows : Validate(1, now))
    /\ WF_vars(\E s \in SessionIds :
                  \E route \in RoutesOn(s) :
                     \E outcome \in LiveOutcomes(route) : Upstream(s, outcome))
    /\ WF_vars(Receive(1))
    /\ WF_vars(Transform(1))

SpecLive == Init /\ [][NextLive]_vars /\ Fairness

(* ------------------------------- claims -------------------------------- *)

\* The text of the one block a finished call returned.
Text(c) == calls[c].result.blocks[1].text

\* The call was given the argument `key`.
Given(c, key) == key \in DOMAIN calls[c].args

\* C1: every call of handle_call_tool, whatever the tool name, the arguments
\* (None included) and the upstream's outcome, ends by returning exactly one
\* content block, of type text; no exception leaves the dispatcher.  Until
\* it ends the call has produced nothing.
C1_OneTextBlock ==
    \A c \in CallIds :
        /\ calls[c].pc = "Done" =>
              /\ calls[c].result.k = "return"
              /\ Len(calls[c].result.blocks) = 1
              /\ calls[c].result.blocks[1].type = "text"
        /\ calls[c].pc # "Done" => calls[c].result = Pending

\* C1 witness: search_content got a JSON answer of unexpected shape (a page
\* without title) and returned the text of the outermost handler.
C1_Witness ==
    /\ calls[1].pc = "Done"
    /\ calls[1].name = "search_content"
    /\ calls[1].arguments = <<>>
    /\ calls[1].resp # <<>>
    /\ calls[1].resp[1].kind = "json"
    /\ calls[1].result.k = "return"
    /\ Text(1) = "Unexpected error: 'title'"

\* C2 (as claimed): a search_content call with a limit outside 1..50, and a
\* search_titles call with a limit outside 1..100, issues no request and
\* ends with a text that is none of the upstream's renderings.
C2_LimitRejected ==
    \A c \in CallIds :
        (/\ calls[c].pc # "Idle"
         /\ Given(c, "limit")
         /\ \/ calls[c].name = "search_content" /\ calls[c].args["limit"] \notin 1..50
            \/ calls[c].name = "search_titles" /\ calls[c].args["limit"] \notin 1..100)
        => /\ calls[c].nreq = 0
           /\ calls[c].resp = <<>>

\* The argument `key` is absent or one of `valid`.
AbsentOrIn(c, key, valid) == ~Given(c, key) \/ calls[c].args[key] \in valid

\* The date argument: given and not the empty string (which the code takes
\* for an absent date).
HasDate(c) == Given(c, "date") /\ calls[c].args["date"] # <<>>

\* The pieces of the date around its "/", and the number a piece stands for
\* after it is filled to two characters.
DateParts(c) == Split(calls[c].args["date"], "/")

PartNumber(part) == PyInt(ZFill(part, 2))

PartText(part) == JoinChars(ZFill(part, 2))

SupportedText == "de, en, es, fr, ja, ru, zh"

\* A get_featured date that is not year/month/day in digits with a month in
\* 1..12 and a day of that month.
FeaturedDateInvalid(date) ==
    LET parts == Split(date, "/")
    IN  \/ Len(parts) # 3
        \/ \E i \in 1..3 : ~AllDigits(parts[i])
        \/ Len(parts[1]) # 4 \/ Len(parts[2]) > 2 \/ Len(parts[3]) > 2
        \/ DigitsVal(parts[1]) < 1
        \/ DigitsVal(parts[2]) \notin 1..12
        \/ DigitsVal(parts[3]) \notin 1..CalendarDays(DigitsVal(parts[1]), DigitsVal(parts[2]))

\* The table of the days of each month get_on_this_day is specified with.
FixedTable == <<31, 29, 31, 30, 31, 30, 31, 31, 30, 31, 30, 31>>

\* A get_on_this_day date that is not month/day, has a part that is no
\* number, or has its month or its day out of range.
OnThisDayDateInvalid(date) ==
    LET parts == Split(date, "/")
    IN  \/ Len(parts) # 2
        \/ ~PartNumber(parts[1]).ok
        \/ ~PartNumber(parts[2]).ok
        \/ PartNumber(parts[1]).v \notin 1..12
        \/ PartNumber(parts[2]).v \notin 1..FixedTable[PartNumber(parts[1]).v]

\* The arguments of a get_featured or get_on_this_day call fail validation.
FailsValidation(c) ==
    \/ Given(c, "project") /\ calls[c].args["project"] # "wikipedia"
    \/ Given(c, "language")
       /\ calls[c].args["language"] \notin {"en", "de", "fr", "es", "ru", "ja", "zh"}
    \/ /\ calls[c].name = "get_on_this_day"
       /\ Given(c, "type")
       /\ calls[c].args["type"]
             \notin {"all", "selected", "births", "deaths", "holidays", "events"}
    \/ /\ calls[c].name = "get_featured"
       /\ HasDate(c)
       /\ FeaturedDateInvalid(calls[c].args["date"])
    \/ /\ calls[c].name = "get_on_this_day"
       /\ HasDate(c)
       /\ OnThisDayDateInvalid(calls[c].args["date"])

InvalidDayText(day, month, days) ==
    "Invalid day: " \o day \o ". Month " \o month \o " has " \o ToString(days) \o " days"

InvalidMonthText(month) == "Invalid month: " \o month \o ". Must be between 01 and 12"

\* The error texts of get_featured for the arguments of call c.
FeaturedErrorTexts(c) ==
    {"Featured content is only available for Wikipedia, not "
        \o Get(calls[c].args, "project", "wikipedia"),
     "Featured content is not available for language '"
        \o Get(calls[c].args, "language", "en")
        \o "'. Supported languages are: " \o SupportedText,
     "Invalid date format: " \o JoinChars(Get(calls[c].args, "date", <<>>))
        \o ". Please use YYYY/MM/DD format (e.g., 2025/01/02)"}

\* The error texts of get_on_this_day for the arguments of call c.
OnThisDayErrorTexts(c) ==
    LET date == Get(calls[c].args, "date", <<>>)
        parts == Split(date, "/")
        month == PartText(parts[1])
        day == PartText(IF Len(parts) > 1 THEN parts[2] ELSE <<>>)
    IN  {"Invalid event type: '" \o Get(calls[c].args, "type", "all")
            \o "'. Supported types are: all, births, deaths, events, holidays, selected",
         "On this day events are only available for Wikipedia, not "
            \o Get(calls[c].args, "project", "wikipedia"),
         "On this day events are not available for language '"
            \o Get(calls[c].args, "language", "en")
            \o "'. Supported languages are: " \o SupportedText,
         "Invalid date format: " \o JoinChars(date)
            \o ". Please use MM/DD format (e.g., 01/28)",
         InvalidMonthText(month),
         "Error retrieving historical events: invalid literal for int() with base 10: '"
            \o month \o "'",
         "Error retrieving historical events: invalid literal for int() with base 10: '"
            \o day \o "'"}
        \cup {InvalidDayText(day, month, n) : n \in 28..31}

\* C3: a get_featured or get_on_this_day call whose arguments fail
\* validation (project, language, event type, or a date that is malformed,
\* not numeric or out of range) never issues an upstream request, at any
\* point of the call, and ends with one text block holding an error text.
C3_InvalidNeverRequests ==
    \A c \in CallIds :
        (/\ calls[c].pc # "Idle"
         /\ calls[c].name \in {"get_featured", "get_on_this_day"}
         /\ FailsValidation(c))
        => /\ calls[c].pc \in {"Validating", "Done"}
           /\ calls[c].nreq = 0
           /\ calls[c].resp = <<>>
           /\ net[calls[c].session].req = <<>>
           /\ calls[c].pc = "Done" =>
                 /\ calls[c].result.k = "return"
                 /\ Len(calls[c].result.blocks) = 1
                 /\ Text(c) \in (IF calls[c].name = "get_featured"
                                 THEN FeaturedErrorTexts(c) ELSE OnThisDayErrorTexts(c))

\* C3 witness: get_on_this_day ended on a date with a part that is no number.
C3_Witness ==
    /\ calls[1].pc = "Done"
    /\ calls[1].name = "get_on_this_day"
    /\ HasDate(1)
    /\ calls[1].args["date"] = <<"x", "/", "1">>
    /\ calls[1].nreq = 0
    /\ Text(1) = "Error retrieving historical events: invalid literal for int() with base 10: '0x'"

\* C4: a get_featured call with a project other than "wikipedia" (whatever
\* the other arguments), and a get_on_this_day call with such a project and
\* an absent or valid event type, returns the text "... only available for
\* Wikipedia, not {project}" and issues no request.
C4_ProjectRejected ==
    \A c \in CallIds :
        (/\ calls[c].pc = "Done"
         /\ Given(c, "project")
         /\ calls[c].args["project"] # "wikipedia")
        => /\ calls[c].name = "get_featured" =>
                 /\ Text(c) = "Featured content is only available for Wikipedia, not "
                              \o calls[c].args["project"]
                 /\ calls[c].nreq = 0
           /\ (calls[c].name = "get_on_this_day" /\ AbsentOrIn(c, "type", ValidTypes)) =>
                 /\ Text(c) = "On this day events are only available for Wikipedia, not "
                              \o calls[c].args["project"]
                 /\ calls[c].nreq = 0

\* C4 witness: get_on_this_day ended for project wiktionary and type births.
C4_Witness ==
    /\ calls[1].pc = "Done"
    /\ calls[1].name = "get_on_this_day"
    /\ Given(1, "project") /\ calls[1].args["project"] = "wiktionary"
    /\ Given(1, "type") /\ calls[1].args["type"] = "births"
    /\ Text(1) = "On this day events are only available for Wikipedia, not wiktionary"

\* C5: a call ends with the text "Error: Unknown tool: {name}" exactly when
\* its tool name is none of the six advertised names; such a call issues no
\* request.
C5_UnknownToolIff ==
    \A c \in CallIds :
        calls[c].pc = "Done" =>
            /\ (Text(c) = "Error: Unknown tool: " \o calls[c].name)
                  <=> (calls[c].name \notin ToolNames)
            /\ calls[c].name \notin ToolNames => (calls[c].nreq = 0 /\ calls[c].resp = <<>>)

\* C5 witness: a call of a tool that does not exist ended.
C5_Witness ==
    /\ calls[1].pc = "Done"
    /\ calls[1].name = "get_weather"
    /\ calls[1].nreq = 0
    /\ Text(1) = "Error: Unknown tool: get_weather"

\* The date of call c is month/day with both parts numbers.
NumericDate(c) ==
    /\ HasDate(c)
    /\ Len(DateParts(c)) = 2
    /\ PartNumber(DateParts(c)[1]).ok
    /\ PartNumber(DateParts(c)[2]).ok

\* The event type, project and language of call c pass their checks.
OtherArgumentsValid(c) ==
    /\ AbsentOrIn(c, "type", {"all", "selected", "births", "deaths", "holidays", "events"})
    /\ AbsentOrIn(c, "project", {"wikipedia"})
    /\ AbsentOrIn(c, "language", {"en", "de", "fr", "es", "ru", "ja", "zh"})

\* C6: in get_on_this_day, for a date M/D with M outside 1..12 and any number
\* D, the result is never the invalid-day error; when the date checks are
\* reached (type, project and language pass) it is the invalid-month error.
C6_MonthBeforeDay ==
    \A c \in CallIds :
        (/\ calls[c].pc = "Done"
         /\ calls[c].name = "get_on_this_day"
         /\ NumericDate(c)
         /\ PartNumber(DateParts(c)[1]).v \notin 1..12)
        => /\ Text(c) \notin {InvalidDayText(PartText(DateParts(c)[2]),
                                             PartText(DateParts(c)[1]), n) : n \in 0..31}
           /\ OtherArgumentsValid(c) =>
                 /\ Text(c) = InvalidMonthText(PartText(DateParts(c)[1]))
                 /\ calls[c].nreq = 0

\* C6 witness: the date 13/40, month and day both out of range.
C6_Witness ==
    /\ calls[1].pc = "Done"
    /\ calls[1].name = "get_on_this_day"
    /\ HasDate(1)
    /\ calls[1].args["date"] = <<"1", "3", "/", "4", "0">>
    /\ Text(1) = "Invalid month: 13. Must be between 01 and 12"

\* The date of call c is M/D, each written in one or two digits.
PlainDate(c) ==
    /\ HasDate(c)
    /\ Len(DateParts(c)) = 2
    /\ \A i \in 1..2 : AllDigits(DateParts(c)[i]) /\ Len(DateParts(c)[i]) <= 2

\* C7: in get_on_this_day, for a month M in 1..12 (type, project and
\* language passing), the date M/D passes validation, that is, the request
\* is issued, exactly when 1 <= D <= FixedTable[M], whatever the current
\* date; a rejected day ends the call with "Invalid day: DD. Month MM has
\* FixedTable[M] days", MM and DD in two digits.
C7_FixedDayTable ==
    \A c \in CallIds :
        (/\ calls[c].pc \notin {"Idle", "Validating"}
         /\ calls[c].name = "get_on_this_day"
         /\ OtherArgumentsValid(c)
         /\ PlainDate(c)
         /\ DigitsVal(DateParts(c)[1]) \in 1..12)
        => LET M == DigitsVal(DateParts(c)[1])
               D == DigitsVal(DateParts(c)[2])
           IN  /\ (calls[c].nreq = 1) <=> (1 <= D /\ D <= FixedTable[M])
               /\ calls[c].nreq = 0 =>
                     /\ calls[c].pc = "Done"
                     /\ Text(c) = InvalidDayText(JoinChars(Fmt2(D)), JoinChars(Fmt2(M)),
                                                 FixedTable[M])

\* C7 witness: the date 2/30 was rejected with the 29 days of the table.
C7_Witness ==
    /\ calls[1].pc = "Done"
    /\ calls[1].name = "get_on_this_day"
    /\ HasDate(1)
    /\ calls[1].args["date"] = <<"2", "/", "3", "0">>
    /\ Text(1) = "Invalid day: 30. Month 02 has 29 days"

\* The call read a JSON dict from the upstream.
ReadJson(c) == calls[c].resp # <<>> /\ calls[c].resp[1].kind = "json"

\* The answer call c read holds at least one page object, and the first is an
\* existing page (no `missing` marker).
ReadExistingPage(c) ==
    /\ ReadJson(c)
    /\ "query" \in DOMAIN calls[c].resp[1].data
    /\ "pages" \in DOMAIN calls[c].resp[1].data["query"]
    /\ calls[c].resp[1].data["query"]["pages"] # <<>>
    /\ "missing" \notin DOMAIN calls[c].resp[1].data["query"]["pages"][1]

QueryOf(c) == calls[c].resp[1].data["query"]

PageOf(c) == QueryOf(c)["pages"][1]

\* The page object has a title and a first revision with content and timestamp.
CompletePage(page) ==
    /\ {"title", "revisions"} \subseteq DOMAIN page
    /\ page["revisions"] # <<>>
    /\ {"slots", "timestamp"} \subseteq DOMAIN page["revisions"][1]

PageText(title, page) ==
    "# " \o title \o "\n\n" \o page["revisions"][1]["slots"]["main"]["*"]
    \o "\n\nLast modified: " \o page["revisions"][1]["timestamp"]

\* C8: get_page, for an existing page with content: when the answer carries a
\* (non-empty) redirects array the rendered title is the `to` of its last
\* element; when it carries none, the title is the page object's own.
C8_RedirectTitle ==
    \A c \in CallIds :
        (/\ calls[c].pc = "Done"
         /\ calls[c].name = "get_page"
         /\ ReadExistingPage(c)
         /\ CompletePage(PageOf(c)))
        => /\ ("redirects" \in DOMAIN QueryOf(c)
               /\ QueryOf(c)["redirects"] # <<>>
               /\ "to" \in DOMAIN QueryOf(c)["redirects"][Len(QueryOf(c)["redirects"])])
              => Text(c) = PageText(QueryOf(c)["redirects"][Len(QueryOf(c)["redirects"])]["to"],
                                    PageOf(c))
           /\ "redirects" \notin DOMAIN QueryOf(c)
              => Text(c) = PageText(PageOf(c)["title"], PageOf(c))

\* C8 witness: the title Foo was redirected to Baz and from there to Qux.
C8_Witness ==
    /\ calls[1].pc = "Done"
    /\ calls[1].name = "get_page"
    /\ ReadExistingPage(1)
    /\ "redirects" \in DOMAIN QueryOf(1)
    /\ QueryOf(1)["redirects"] = <<[from |-> "Foo", to |-> "Baz"], [from |-> "Baz", to |-> "Qux"]>>
    /\ Text(1) = "# Qux\n\nBody text\n\nLast modified: 2024-05-01T12:00:00Z"

\* The page object has a non-empty langlinks list of complete links.
CompleteLinks(page) ==
    /\ "langlinks" \in DOMAIN page
    /\ page["langlinks"] # <<>>
    /\ \A i \in 1..Len(page["langlinks"]) :
          {"lang", "*"} \subseteq DOMAIN page["langlinks"][i]

\* The language codes of links[order[1]], links[order[2]], ... ascend.
Ascending(links, order) ==
    \A i, j \in 1..Len(links) :
        i < j => ~StrLess(links[order[j]]["lang"], links[order[i]]["lang"])

\* C9: get_languages, for every order of a non-empty langlinks list: the
\* text is "Found {n} language versions:" with n the number of upstream
\* links, followed by one line per link (each link once) in ascending order
\* of the language codes.
C9_SortedLinks ==
    \A c \in CallIds :
        (/\ calls[c].pc = "Done"
         /\ calls[c].name = "get_languages"
         /\ ReadExistingPage(c)
         /\ CompleteLinks(PageOf(c)))
        => LET links == PageOf(c)["langlinks"]
               n == Len(links)
           IN  \E order \in Permutations(1..n) :
                   /\ Ascending(links, order)
                   /\ Text(c) = "Found " \o ToString(n) \o " language versions:\n\n"
                                \o StrJoin("\n", [i \in 1..n |-> LangLine(links[order[i]])])

\* C9 witness: the upstream listed fr before de.
C9_Witness ==
    /\ calls[1].pc = "Done"
    /\ calls[1].name = "get_languages"
    /\ ReadExistingPage(1)
    /\ "langlinks" \in DOMAIN PageOf(1)
    /\ PageOf(1)["langlinks"]
          = <<Link(<<"f", "r">>, "France"), Link(<<"d", "e">>, "Frankreich")>>
    /\ Text(1) = "Found 2 language versions:\n\n- [de] Frankreich\n- [fr] France"

\* The call is inside handle_call_tool's `async with` block.
Active(c) == calls[c].pc \in {"Validating", "Requesting", "Transforming"}

\* C10: under every interleaving of the calls, each call has a session of
\* its own, open exactly while the call runs (no session is shared and none
\* outlives its call); the request in flight on it is the call's own, built
\* from the call's name and arguments; what the call reads is the answer on
\* its own session; and the calls' results are a function of (name,
\* arguments, answer read): two finished calls that agree on these agree on
\* their result.
C10_Isolation ==
    /\ \A c \in CallIds :
          Active(c) =>
              /\ calls[c].session \in SessionIds
              /\ net[calls[c].session].open
              /\ \A d \in CallIds \ {c} : Active(d) => calls[d].session # calls[c].session
    /\ \A s \in SessionIds :
          net[s].open => \E c \in CallIds : Active(c) /\ calls[c].session = s
    /\ \A c \in CallIds :
          /\ calls[c].pc = "Validating" => net[calls[c].session].req = <<>>
          /\ calls[c].pc \in {"Requesting", "Transforming"} =>
                \E now \in Nows :
                    net[calls[c].session].req = Prepare(calls[c].name, calls[c].args, now).req
          /\ calls[c].pc = "Transforming" => calls[c].resp = net[calls[c].session].resp
    /\ \A c, d \in CallIds :
          (/\ calls[c].pc = "Done" /\ calls[d].pc = "Done"
           /\ calls[c].name = calls[d].name
           /\ calls[c].args = calls[d].args
           /\ calls[c].resp = calls[d].resp)
          => calls[c].result = calls[d].result

\* C10 witness: two calls run at once, each with its request in flight on
\* its own session, and the second is already answered.
C10_Witness ==
    /\ calls[1].pc = "Requesting"
    /\ calls[1].name = "search_content"
    /\ calls[2].pc = "Transforming"
    /\ calls[2].name = "get_page"
    /\ calls[1].session # calls[2].session
    /\ net[calls[1].session].resp = <<>>

(* C11 *)

\* The phases a call may move between in one step: forward by one, or from
\* any phase to Done; Done to Idle is the host taking the result.
PhaseSteps ==
    {<<"Idle", "Validating">>, <<"Validating", "Requesting">>,
     <<"Requesting", "Transforming">>, <<"Transforming", "Done">>,
     <<"Idle", "Done">>, <<"Validating", "Done">>, <<"Requesting", "Done">>,
     <<"Done", "Idle">>}

\* The prefixes of the texts an exception ends in.
ErrorPrefixes ==
    {"Error accessing Wikipedia API: ", "Error: ", "Unexpected error: "}
    \cup {InnerPrefix(name) : name \in InnerTryTools}

\* A step of call c keeps to the phases; a jump from Requesting to Done ends
\* in an error text about the failed request; a request is issued only on
\* leaving Validating, so not after an answer of any kind.
PhaseStep(c) ==
    /\ calls'[c].pc # calls[c].pc => <<calls[c].pc, calls'[c].pc>> \in PhaseSteps
    /\ calls[c].pc = "Requesting" /\ calls'[c].pc = "Done"
          => /\ calls'[c].resp # <<>>
             /\ calls'[c].resp[1].kind \in {"transport", "timeout", "status"}
             /\ \E prefix \in ErrorPrefixes :
                    calls'[c].result = Ret(prefix \o calls'[c].resp[1].msg)
    /\ calls'[c].nreq > calls[c].nreq
          => /\ calls[c].pc = "Validating" /\ calls'[c].pc = "Requesting"
             /\ calls[c].nreq = 0
             /\ net[calls[c].session].resp = <<>>

\* Every GET put on a session is one its call has counted.
Counted(s) ==
    net'[s].req # net[s].req /\ net'[s].req # <<>>
       => /\ Len(net'[s].req) = 1
          /\ \E c \in CallIds : /\ calls[c].session = s
                                 /\ calls'[c].nreq = calls[c].nreq + 1

\* C11: every invocation moves through Idle, Validating, Requesting,
\* Transforming, Done in that order, or jumps from a phase directly to Done;
\* it issues at most one GET, never issues one again after a failure, and,
\* when the upstream answers every request, always reaches Done.
C11_PhasesOneGetDone ==
    /\ [][(\A c \in CallIds : PhaseStep(c)) /\ (\A s \in SessionIds : Counted(s))]_vars
    /\ [](\A c \in CallIds : calls[c].nreq <= 1)
    /\ \A c \in {1} : (calls[c].pc # "Idle") ~> (calls[c].pc = "Done")

\* C11 witness: a call whose one request failed upstream has reached Done
\* with the error text, its session closed and nothing in flight.
C11_Witness ==
    /\ calls[1].pc = "Done"
    /\ calls[1].nreq = 1
    /\ calls[1].resp # <<>>
    /\ calls[1].resp[1].kind = "status"
    /\ calls[1].name = "search_titles"
    /\ Text(1) = "Error accessing Wikipedia API: " \o calls[1].resp[1].msg
    /\ ~net[calls[1].session].open

(* C12 *)

\* The fields of an on-this-day answer a section is built from, by the type
\* that asks for each, with the number of entries kept (0: all of them).
SectionFields == [selected |-> 10, births |-> 5, deaths |-> 5, holidays |-> 0]

\* What is left of the field after truncation.
Truncated(data, f) ==
    IF SectionFields[f] = 0 THEN data[f] ELSE Prefix(data[f], SectionFields[f])

\* The field qualifies for a section: the type asks for it, it is present,
\* and it is not empty after truncation.
Qualifies(type_, data, f) ==
    /\ type_ \in {"all", f}
    /\ f \in DOMAIN data
    /\ Truncated(data, f) # <<>>

\* The answer without the section fields that are present but empty.
WithoutEmpty(data) ==
    Restrict(data, {k \in DOMAIN data : k \in DOMAIN SectionFields => data[k] # <<>>})

\* Call c is a get_on_this_day call that has rendered a JSON answer.
RenderedOnThisDay(c) ==
    /\ calls[c].pc = "Done"
    /\ calls[c].name = "get_on_this_day"
    /\ ReadJson(c)

NoEventsText(c) ==
    "No " \o calls[c].locals.type_ \o " events found for date: "
    \o calls[c].locals.month \o "/" \o calls[c].locals.day

\* C12 (as claimed): on a successful answer get_on_this_day builds a section
\* only for a field its type asks for that is present and non-empty after
\* truncation, so a present but empty list counts as absent; when no field
\* qualifies the result is the "No {type} events found" text.
C12_EmptyFieldNoSection ==
    \A c \in CallIds :
        RenderedOnThisDay(c)
        => LET data == calls[c].resp[1].data
               type_ == calls[c].locals.type_
           IN  /\ calls[c].result =
                     GetOnThisDayTransform(type_, calls[c].locals.month,
                                           calls[c].locals.day, WithoutEmpty(data))
               /\ (\A f \in DOMAIN SectionFields : ~Qualifies(type_, data, f))
                     => Text(c) = NoEventsText(c)

(* C13 *)

\* Call c is a get_on_this_day call given the type "events".
EventsCall(c) ==
    /\ calls[c].pc # "Idle"
    /\ calls[c].name = "get_on_this_day"
    /\ Given(c, "type")
    /\ calls[c].args["type"] = "events"

\* The URL of the events feed for the project, language and date of call c.
EventsUrl(c) ==
    "https://api.wikimedia.org/feed/v1/" \o Get(calls[c].args, "project", "wikipedia")
    \o "/" \o Get(calls[c].args, "language", "en") \o "/onthisday/events/"
    \o calls[c].locals.month \o "/" \o calls[c].locals.day

\* C13: get_on_this_day with the type "events" is not rejected as an invalid
\* type; when the other arguments are valid it issues one request, to the
\* onthisday/events endpoint; and for every answer that is read as JSON,
\* whatever it holds, the result is "No events events found for date: MM/DD".
C13_EventsNeverRendered ==
    \A c \in CallIds :
        EventsCall(c)
        => /\ calls[c].pc = "Done"
                => Text(c) # "Invalid event type: 'events'. Supported types are: "
                              \o "all, births, deaths, events, holidays, selected"
           /\ ~FailsValidation(c) /\ calls[c].pc # "Validating"
                => /\ calls[c].nreq = 1
                   /\ HasDate(c) => /\ calls[c].locals.month = PartText(DateParts(c)[1])
                                    /\ calls[c].locals.day = PartText(DateParts(c)[2])
           /\ ~FailsValidation(c) /\ calls[c].pc = "Requesting"
                => /\ Len(net[calls[c].session].req) = 1
                   /\ net[calls[c].session].req[1].url = EventsUrl(c)
           /\ calls[c].pc = "Done" /\ calls[c].resp # <<>>
              /\ calls[c].resp[1].kind \in {"json", "json_list"}
                => Text(c) = "No events events found for date: "
                             \o calls[c].locals.month \o "/" \o calls[c].locals.day

\* C13 witness: an events call for 02/29 read an answer with a non-empty
\* `events` list (and more) and returned the no-events text.
C13_Witness ==
    /\ EventsCall(1)
    /\ calls[1].pc = "Done"
    /\ HasDate(1)
    /\ ReadJson(1)
    /\ "events" \in DOMAIN calls[1].resp[1].data
    /\ Len(calls[1].resp[1].data["events"]) = 2
    /\ "births" \in DOMAIN calls[1].resp[1].data
    /\ Text(1) = "No events events found for date: 02/29"

(* C14 *)

SearchTools == {"search_content", "search_titles"}

\* The prefixes of the texts of the three outer handlers.
OuterPrefixes == {"Error accessing Wikipedia API: ", "Error: ", "Unexpected error: "}

\* str(e) of the exceptions a branch can raise for the arguments of call c:
\* those of the HTTP exchange, of a None query parameter, of int() on a part
\* of the date, and of a key or an index missing in the answer.
ExceptionMessages(c) ==
    {o.msg : o \in FailureOutcomes}
    \cup {NoneParamMsg, "list index out of range", "'list' object has no attribute 'get'"}
    \cup {"'" \o key \o "'" : key \in {"title", "revisions", "slots", "main", "*",
                                        "timestamp", "to", "lang"}}
    \cup LET parts == Split(Get(calls[c].args, "date", <<>>), "/")
         IN  {"invalid literal for int() with base 10: '" \o PartText(parts[i]) \o "'" :
                 i \in 1..Len(parts)}

\* Call c has ended on a GET that failed in transport or with a non-2xx status.
FailedUpstream(c) ==
    /\ calls[c].pc = "Done"
    /\ calls[c].resp # <<>>
    /\ calls[c].resp[1].kind \in {"transport", "status"}

\* C14: a transport failure or a non-2xx status ends in the outer handler's
\* text "Error accessing Wikipedia API: ..." for search_content and
\* search_titles only; for get_page, get_languages, get_featured and
\* get_on_this_day it ends in the text with the tool's own prefix, as does
\* every other failure of the exchange, and no result of these four tools
\* is the text of an outer handler.
C14_InnerCatchAllFirst ==
    \A c \in CallIds :
        /\ FailedUpstream(c)
             => /\ calls[c].name \in SearchTools \cup InnerTryTools
                /\ calls[c].name \in SearchTools
                     => Text(c) = "Error accessing Wikipedia API: " \o calls[c].resp[1].msg
                /\ calls[c].name \in InnerTryTools
                     => Text(c) = InnerPrefix(calls[c].name) \o calls[c].resp[1].msg
        /\ (/\ calls[c].pc = "Done"
            /\ calls[c].name \in InnerTryTools
            /\ calls[c].resp # <<>>
            /\ calls[c].resp[1].kind \in {"timeout", "notjson", "badjson"})
             => Text(c) = InnerPrefix(calls[c].name) \o calls[c].resp[1].msg
        /\ calls[c].pc = "Done" /\ calls[c].name \in InnerTryTools
             => \A prefix \in OuterPrefixes : \A msg \in ExceptionMessages(c) :
                   Text(c) # prefix \o msg
        /\ (/\ calls[c].pc = "Done"
            /\ \E msg \in ExceptionMessages(c) :
                   Text(c) = "Error accessing Wikipedia API: " \o msg)
             => calls[c].name \in SearchTools

\* C14 witness: a get_languages call whose GET failed in transport returned
\* the text with the tool's prefix.
C14_Witness ==
    /\ FailedUpstream(1)
    /\ calls[1].name = "get_languages"
    /\ calls[1].resp[1].kind = "transport"
    /\ Text(1) = "Error retrieving language links: Cannot connect to host api.wikimedia.org:443"

(* C15 *)

\* The failures of the arguments of a get_on_this_day call, one per check.
TypeInvalid(c) == ~AbsentOrIn(c, "type", ValidTypes)

ProjectInvalid(c) == ~AbsentOrIn(c, "project", {"wikipedia"})

LanguageInvalid(c) == ~AbsentOrIn(c, "language", SupportedLanguages)

FormatInvalid(c) == HasDate(c) /\ Len(DateParts(c)) # 2

MonthInvalid(c) == NumericDate(c) /\ PartNumber(DateParts(c)[1]).v \notin 1..12

DayInvalid(c) ==
    /\ NumericDate(c)
    /\ PartNumber(DateParts(c)[1]).v \in 1..12
    /\ PartNumber(DateParts(c)[2]).v \notin 1..FixedTable[PartNumber(DateParts(c)[1]).v]

\* The date is M/D with a part that is no number; the first such part.
NotNumeric(c) ==
    /\ HasDate(c)
    /\ Len(DateParts(c)) = 2
    /\ \E i \in 1..2 : ~PartNumber(DateParts(c)[i]).ok

FirstNotNumeric(c) ==
    IF ~PartNumber(DateParts(c)[1]).ok THEN DateParts(c)[1] ELSE DateParts(c)[2]

InvalidTypeText(c) ==
    "Invalid event type: '" \o calls[c].args["type"]
    \o "'. Supported types are: all, births, deaths, events, holidays, selected"

OnlyWikipediaText(c) ==
    "On this day events are only available for Wikipedia, not " \o calls[c].args["project"]

LanguageText(c) ==
    "On this day events are not available for language '" \o calls[c].args["language"]
    \o "'. Supported languages are: " \o SupportedText

FormatText(c) ==
    "Invalid date format: " \o JoinChars(calls[c].args["date"])
    \o ". Please use MM/DD format (e.g., 01/28)"

\* C15: get_on_this_day checks the event type, the project, the language,
\* the date's format, the month and the day in this order and reports the
\* first check that fails only, without issuing a request: the text is that
\* of the earliest failing check however many of the later ones fail too.
\* A date M/D with a part that is no number fails between the format check
\* and the month check, with the text of int()'s error for its first such
\* part, whatever the range of the other part.
C15_FirstFailingCheck ==
    \A c \in CallIds :
        calls[c].pc = "Done" /\ calls[c].name = "get_on_this_day"
        => /\ TypeInvalid(c) => Text(c) = InvalidTypeText(c)
           /\ ~TypeInvalid(c) /\ ProjectInvalid(c) => Text(c) = OnlyWikipediaText(c)
           /\ OtherArgumentsValid(c) /\ FormatInvalid(c) => Text(c) = FormatText(c)
           /\ ~TypeInvalid(c) /\ ~ProjectInvalid(c) /\ LanguageInvalid(c)
                => Text(c) = LanguageText(c)
           /\ OtherArgumentsValid(c) /\ MonthInvalid(c)
                => Text(c) = InvalidMonthText(PartText(DateParts(c)[1]))
           /\ OtherArgumentsValid(c) /\ DayInvalid(c)
                => Text(c) = InvalidDayText(PartText(DateParts(c)[2]),
                                            PartText(DateParts(c)[1]),
                                            FixedTable[PartNumber(DateParts(c)[1]).v])
           /\ OtherArgumentsValid(c) /\ NotNumeric(c)
                => Text(c) = "Error retrieving historical events: "
                             \o "invalid literal for int() with base 10: '"
                             \o PartText(FirstNotNumeric(c)) \o "'"
           /\ (TypeInvalid(c) \/ ProjectInvalid(c) \/ LanguageInvalid(c)
               \/ FormatInvalid(c) \/ NotNumeric(c) \/ MonthInvalid(c) \/ DayInvalid(c))
                => calls[c].nreq = 0 /\ calls[c].resp = <<>>

\* C15 witness: every argument is invalid at once (the type, the project,
\* the language, and a date with month and day out of range) and the text is
\* the one of the type check.
C15_Witness ==
    /\ calls[1].pc = "Done"
    /\ calls[1].name = "get_on_this_day"
    /\ TypeInvalid(1) /\ ProjectInvalid(1) /\ LanguageInvalid(1) /\ MonthInvalid(1)
    /\ calls[1].args["project"] = "wiktionary"
    /\ Text(1) = "Invalid event type: 'anniversaries'. Supported types are: "
                 \o "all, births, deaths, events, holidays, selected"

====
